---- MODULE Spec2Model ----
(***************************************************************************)
(* IO type-stub generator (src/io/stub_generator.py).                      *)
(*                                                                         *)
(* The generator flattens the handler registry into a suffix table         *)
(* (_collect_suffix_info), groups the resolved return types by modality    *)
(* (_group_by_modality), renders one overload per modality                 *)
(* (_generate_modality_overload) and assembles the stub text               *)
(* (_generate_stub_content), which generate_io_stubs writes to Mapping.pyi.*)
(*                                                                         *)
(* Python values are modelled as follows:                                  *)
(*   str            a TLA+ string; characters are read with SubSeq         *)
(*   dict           a sequence of entries in insertion order, keys unique  *)
(*   set            a TLA+ set; iterating a set takes an enumeration of it *)
(*                  that the interpreter (hash seed) picks                 *)
(*   class object   a record [name, has_return_type, return_type]          *)
(***************************************************************************)
EXTENDS Integers, Sequences, FiniteSets, TLC

VARIABLES
    IORegistry,        \* the registry: modality records, in registry order
    collision_suffix,  \* IORegistry.collision_suffix
    pc,                \* "call" before the operation has run, "return" after it
    suffix_info,       \* the table _collect_suffix_info returned
    lines,             \* the list `lines` of _generate_stub_content
    content,           \* the text _generate_stub_content returned
    output_file,       \* the text of Mapping.pyi on disk
    handler_class,     \* argument of _get_handler_return_type
    resolved_type,     \* its result
    modality_arg,      \* arguments of _generate_modality_overload
    return_types_arg,
    overload_lines     \* its result

vars == <<IORegistry, collision_suffix, pc, suffix_info, lines, content, output_file,
          handler_class, resolved_type, modality_arg, return_types_arg,
          overload_lines>>

(***************************************************************************)
(* Strings.                                                                *)
(***************************************************************************)
UpperCase == "ABCDEFGHIJKLMNOPQRSTUVWXYZ"
LowerCase == "abcdefghijklmnopqrstuvwxyz"
Digits == "0123456789"

CharAt(s, i) == SubSeq(s, i, i)

\* Position of the one-character string c in alphabet, 0 when absent.
IndexIn(alphabet, c) ==
    IF \E i \in 1..Len(alphabet) : CharAt(alphabet, i) = c
    THEN CHOOSE i \in 1..Len(alphabet) : CharAt(alphabet, i) = c
    ELSE 0

Characters(alphabet) == {CharAt(alphabet, i) : i \in 1..Len(alphabet)}

\* ord(c) for the characters the generator's strings are made of.
Ord ==
    [c \in Characters(UpperCase) \cup Characters(LowerCase) \cup Characters(Digits)
           \cup Characters(" ,.[]_") |->
        CASE IndexIn(UpperCase, c) > 0 -> 64 + IndexIn(UpperCase, c)
          [] IndexIn(LowerCase, c) > 0 -> 96 + IndexIn(LowerCase, c)
          [] IndexIn(Digits, c) > 0 -> 47 + IndexIn(Digits, c)
          [] c = " " -> 32
          [] c = "," -> 44
          [] c = "." -> 46
          [] c = "[" -> 91
          [] c = "]" -> 93
          [] c = "_" -> 95]

\* c.lower() for an upper-case letter c.
LowerOf == [c \in Characters(UpperCase) |-> CharAt(LowerCase, IndexIn(UpperCase, c))]

\* str.__lt__: code-point lexicographic order, a proper prefix first.
RECURSIVE StrLess(_, _)
StrLess(a, b) ==
    IF Len(b) = 0 THEN FALSE
    ELSE IF Len(a) = 0 THEN TRUE
    ELSE IF CharAt(a, 1) = CharAt(b, 1)
         THEN StrLess(SubSeq(a, 2, Len(a)), SubSeq(b, 2, Len(b)))
         ELSE Ord[CharAt(a, 1)] < Ord[CharAt(b, 1)]

\* str.lower()
RECURSIVE StrLower(_)
StrLower(s) ==
    IF Len(s) = 0 THEN s
    ELSE LET c == CharAt(s, 1)
         IN (IF c \in DOMAIN LowerOf THEN LowerOf[c] ELSE c)
                \o StrLower(SubSeq(s, 2, Len(s)))

\* str.lstrip(".")
RECURSIVE StrLstripDot(_)
StrLstripDot(s) ==
    IF Len(s) > 0 /\ CharAt(s, 1) = "."
    THEN StrLstripDot(SubSeq(s, 2, Len(s)))
    ELSE s

\* suffix.lstrip(".").lower()
NormalizeSuffix(suffix) == StrLower(StrLstripDot(suffix))

\* sorted(S) for a set of strings.
RECURSIVE SortedStrings(_)
SortedStrings(S) ==
    IF S = {} THEN <<>>
    ELSE LET m == CHOOSE x \in S : \A y \in S \ {x} : StrLess(x, y)
         IN <<m>> \o SortedStrings(S \ {m})

\* sep.join(parts)
RECURSIVE StrJoin(_, _)
StrJoin(sep, parts) ==
    IF Len(parts) = 0 THEN ""
    ELSE IF Len(parts) = 1 THEN parts[1]
    ELSE LET half == Len(parts) \div 2
         IN StrJoin(sep, SubSeq(parts, 1, half)) \o sep
                \o StrJoin(sep, SubSeq(parts, half + 1, Len(parts)))

\* The enumerations of a finite set: the orders a for loop may visit it in.
RECURSIVE Enumerations(_)
Enumerations(S) ==
    IF S = {} THEN {<<>>}
    ELSE UNION {{<<x>> \o rest : rest \in Enumerations(S \ {x})} : x \in S}

(***************************************************************************)
(* Module constants.                                                       *)
(***************************************************************************)
DEFAULT_RETURN_TYPES ==
    [n \in {"BaseImage", "BaseText", "JsonText", "YamlText", "BaseVideo"} |->
        CASE n = "BaseImage" -> "PIL.Image.Image"
          [] n = "BaseText" -> "str"
          [] n = "JsonText" -> "dict[str, Any]"
          [] n = "YamlText" -> "dict[str, Any]"
          [] n = "BaseVideo" -> "torchvision.io.VideoReader"]

TYPE_IMPORTS ==
    [t \in {"PIL.Image.Image", "torchvision.io.VideoReader"} |->
        CASE t = "PIL.Image.Image" -> "from PIL.Image import Image as PILImage"
          [] t = "torchvision.io.VideoReader" -> "from torchvision.io import VideoReader"]

TYPE_STUB_NAMES ==
    [t \in {"PIL.Image.Image", "torchvision.io.VideoReader"} |->
        CASE t = "PIL.Image.Image" -> "PILImage"
          [] t = "torchvision.io.VideoReader" -> "VideoReader"]

\* dict.get(key, default)
DictGet(d, key, default) == IF key \in DOMAIN d THEN d[key] ELSE default

(***************************************************************************)
(* Handlers.  A handler class has a __name__ and may define return_type.   *)
(* None stands for an absent handler (a falsy registry value).             *)
(***************************************************************************)
None == [name |-> "NoneType", has_return_type |-> FALSE, return_type |-> ""]

HandlerClass(n) == [name |-> n, has_return_type |-> FALSE, return_type |-> ""]

TypedHandlerClass(n, t) == [name |-> n, has_return_type |-> TRUE, return_type |-> t]

\* bool(handler)
Truthy(handler) == handler # None

\* A variant of _get_handler_return_type: the table is consulted before the
\* class's own return_type.
DefaultFirstReturnType(handler) ==
    IF handler.name \in DOMAIN DEFAULT_RETURN_TYPES
    THEN DEFAULT_RETURN_TYPES[handler.name]
    ELSE IF handler.has_return_type THEN handler.return_type ELSE "Any"

_get_handler_return_type(handler) ==
    IF handler.has_return_type
    THEN handler.return_type
    ELSE DictGet(DEFAULT_RETURN_TYPES, handler.name, "Any")

(***************************************************************************)
(* dict operations on a table (a sequence of entries keyed by .suffix).    *)
(***************************************************************************)
\* key in d
DictHasKey(d, key) == \E i \in 1..Len(d) : d[i].suffix = key

\* d[entry.suffix] = entry: an existing key keeps its place, a new key goes last.
DictSet(d, entry) ==
    IF DictHasKey(d, entry.suffix)
    THEN [i \in 1..Len(d) |-> IF d[i].suffix = entry.suffix THEN entry ELSE d[i]]
    ELSE Append(d, entry)

\* d[key], for a key of d
DictLookup(d, key) == d[CHOOSE i \in 1..Len(d) : d[i].suffix = key]

\* list(d): the keys in insertion order
DictKeys(d) == [i \in 1..Len(d) |-> d[i].suffix]

(***************************************************************************)
(* _collect_suffix_info                                                    *)
(***************************************************************************)
\* A variant of SuffixEntry: a suffix of the collision set is stored without its
\* resolved type.
SuffixEntryCollisionUntyped(suffix_lower, handler, modality, collision_suffixes) ==
    [suffix |-> suffix_lower,
     handler |-> handler,
     return_type |-> IF suffix_lower \in collision_suffixes
                     THEN "Any"
                     ELSE _get_handler_return_type(handler),
     modality |-> modality,
     is_collision |-> suffix_lower \in collision_suffixes]

\* The dict literal stored for a suffix (lines 84-89 and 95-100).
SuffixEntry(suffix_lower, handler, modality, collision_suffixes) ==
    [suffix |-> suffix_lower,
     handler |-> handler,
     return_type |-> _get_handler_return_type(handler),
     modality |-> modality,
     is_collision |-> suffix_lower \in collision_suffixes]

\* The guard of the base loop: suffix_lower not in custom_handlers.
NotInCustomHandlers(custom_handlers, suffix_lower) ==
    ~ DictHasKey(custom_handlers, suffix_lower)

\* for suffix in base_suffixes: ..., visiting the set in the given order.
RECURSIVE CollectBaseSuffixes(_, _, _, _, _, _)
CollectBaseSuffixes(info, modality, base_io, order, custom_handlers, collision_suffixes) ==
    IF Len(order) = 0 THEN info
    ELSE LET suffix_lower == NormalizeSuffix(Head(order))
             stored == IF NotInCustomHandlers(custom_handlers, suffix_lower)
                       THEN DictSet(info, SuffixEntry(suffix_lower, base_io, modality,
                                                     collision_suffixes))
                       ELSE info
         IN CollectBaseSuffixes(stored, modality, base_io, Tail(order),
                                custom_handlers, collision_suffixes)

\* for suffix, handler in custom_handlers.items(): ...
RECURSIVE CollectCustomHandlers(_, _, _, _)
CollectCustomHandlers(info, modality, custom_handlers, collision_suffixes) ==
    IF Len(custom_handlers) = 0 THEN info
    ELSE LET suffix == Head(custom_handlers).suffix
             handler == Head(custom_handlers).handler
             stored == IF Truthy(handler)
                       THEN DictSet(info, SuffixEntry(NormalizeSuffix(suffix), handler,
                                                     modality, collision_suffixes))
                       ELSE info
         IN CollectCustomHandlers(stored, modality, Tail(custom_handlers),
                                  collision_suffixes)

\* A variant of CollectModality: the custom handlers are stored before the base
\* suffixes.
CollectModalityCustomFirst(info, registry, order, collision_suffixes) ==
    LET after_custom == CollectCustomHandlers(info, registry.modality, registry.Custom,
                                              collision_suffixes)
    IN IF Truthy(registry.BaseIO)
       THEN CollectBaseSuffixes(after_custom, registry.modality, registry.BaseIO, order,
                                registry.Custom, collision_suffixes)
       ELSE after_custom

\* One pass of the loop over IORegistry.items(): the base suffixes, then the
\* custom handlers.
CollectModality(info, registry, order, collision_suffixes) ==
    LET after_base ==
            IF Truthy(registry.BaseIO)
            THEN CollectBaseSuffixes(info, registry.modality, registry.BaseIO, order,
                                     registry.Custom, collision_suffixes)
            ELSE info
    IN CollectCustomHandlers(after_base, registry.modality, registry.Custom,
                             collision_suffixes)

RECURSIVE CollectFrom(_, _, _, _)
CollectFrom(info, registries, orders, collision_suffixes) ==
    IF Len(registries) = 0 THEN info
    ELSE CollectFrom(CollectModality(info, Head(registries), Head(orders),
                                     collision_suffixes),
                     Tail(registries), Tail(orders), collision_suffixes)

\* orders[i] is the order in which set(base_suffixes) of the i-th modality is
\* visited.
_collect_suffix_info(registries, collision_suffixes, orders) ==
    CollectFrom(<<>>, registries, orders, collision_suffixes)

\* The visiting orders a run may take for a registry.
RECURSIVE IterationOrders(_)
IterationOrders(registries) ==
    IF Len(registries) = 0 THEN {<<>>}
    ELSE {<<o>> \o rest : o \in Enumerations(Head(registries).base_suffixes),
                          rest \in IterationOrders(Tail(registries))}

(***************************************************************************)
(* _group_by_modality: a dict modality -> set of return types, as a        *)
(* sequence of [modality, return_types] in insertion order.                *)
(***************************************************************************)
GroupHasKey(groups, modality) == \E i \in 1..Len(groups) : groups[i].modality = modality

GroupLookup(groups, modality) ==
    groups[CHOOSE i \in 1..Len(groups) : groups[i].modality = modality].return_types

RECURSIVE GroupFrom(_, _)
GroupFrom(groups, info) ==
    IF Len(info) = 0 THEN groups
    ELSE LET modality == Head(info).modality
             return_type == Head(info).return_type
             opened == IF ~ GroupHasKey(groups, modality)
                       THEN Append(groups, [modality |-> modality, return_types |-> {}])
                       ELSE groups
             added == [i \in 1..Len(opened) |->
                          IF opened[i].modality = modality
                          THEN [opened[i] EXCEPT !.return_types = @ \cup {return_type}]
                          ELSE opened[i]]
         IN GroupFrom(added, Tail(info))

_group_by_modality(info) == GroupFrom(<<>>, info)

(***************************************************************************)
(* _generate_modality_overload                                             *)
(***************************************************************************)
\* TYPE_STUB_NAMES.get(t, t)
StubName(t) == DictGet(TYPE_STUB_NAMES, t, t)

\* [TYPE_STUB_NAMES.get(t, t) for t in sorted(return_types)]
UnionMembers(return_types) ==
    LET ordered == SortedStrings(return_types)
    IN [i \in 1..Len(ordered) |-> StubName(ordered[i])]

\* A variant of StubType: a single type is wrapped like several.
StubTypeAlwaysUnion(return_types) ==
    "Union[" \o StrJoin(", ", UnionMembers(return_types)) \o "]"

\* Lines 131-137: the display type.
StubType(return_types) ==
    IF Cardinality(return_types) = 1
    THEN StubName(CHOOSE t \in return_types : TRUE)
    ELSE "Union[" \o StrJoin(", ", UnionMembers(return_types)) \o "]"

_generate_modality_overload(modality, return_types) ==
    << "    # modality=\"" \o modality \o "\"",
       "    @overload",
       "    def load(",
       "        self,",
       "        path: Union[str, PathLike[str]],",
       "        modality: Literal[\"" \o modality \o "\"],",
       "        collision_dict: Optional[dict[str, str]] = None,",
       "        **kwargs: Any,",
       "    ) -> " \o StubType(return_types) \o ": ...",
       "" >>

(***************************************************************************)
(* _generate_stub_content                                                  *)
(***************************************************************************)
\* Lines 170-186: the docstring and the fixed imports.
HeaderLines ==
    << "\"\"\"",
       "Auto-generated stub file for IO.load() type hints.",
       "",
       "Generated by: python -m CLTrainingFramework.io",
       "Do not edit manually - regenerate after registering new handlers.",
       "",
       "Usage:",
       "    image = IO.load(\"test.png\", modality=\"Image\")  # -> PILImage",
       "    text = IO.load(\"file.txt\", modality=\"Text\")    # -> str",
       "    data = IO.load(\"config.json\", modality=\"Text\") # -> Union[str, dict]",
       "    video = IO.load(\"clip.mp4\", modality=\"Video\")  # -> VideoReader",
       "\"\"\"",
       "",
       "from typing import overload, Union, Optional, Any, Literal",
       "from os import PathLike" >>

\* Lines 192-205: the class header and the constructor.
ClassLines ==
    << "",
       "",
       "class IO:",
       "    \"\"\"",
       "    IO Router with type inference based on modality parameter.",
       "",
       "    When modality is specified, returns the corresponding type.",
       "    Without modality, returns Any (suffix-based auto-detection at runtime).",
       "    \"\"\"",
       "",
       "    def __init__(self, modality: Optional[str] = None) -> None: ...",
       "" >>

\* Lines 221-231: the overload for an omitted modality.
FallbackLines ==
    << "    # Fallback when modality is not specified (auto-detection)",
       "    @overload",
       "    def load(",
       "        self,",
       "        path: Union[str, PathLike[str]],",
       "        modality: None = None,",
       "        collision_dict: Optional[dict[str, str]] = None,",
       "        **kwargs: Any,",
       "    ) -> Any: ...",
       "" >>

\* Lines 232-259: load, write, get_io and delete_cache.
SignatureLines ==
    << "    # Implementation signature",
       "    def load(",
       "        self,",
       "        path: Union[str, PathLike[str]],",
       "        modality: Optional[str] = None,",
       "        collision_dict: Optional[dict[str, str]] = None,",
       "        **kwargs: Any,",
       "    ) -> Any: ...",
       "",
       "    def write(",
       "        self,",
       "        path: Union[str, PathLike[str]],",
       "        data: Any,",
       "        modality: Optional[str] = None,",
       "        collision_dict: Optional[dict[str, str]] = None,",
       "        **kwargs: Any,",
       "    ) -> None: ...",
       "",
       "    def get_io(",
       "        self,",
       "        path: Union[str, PathLike[str]],",
       "        modality: Optional[str] = None,",
       "        collision_dict: Optional[dict[str, str]] = None,",
       "    ) -> Any: ...",
       "",
       "    def delete_cache(self, name: str) -> None: ...",
       "" >>

\* modality_order (line 208)
modality_order == <<"Image", "Text", "Video">>

InModalityOrder(modality) == \E i \in 1..Len(modality_order) : modality_order[i] = modality

\* Lines 158-167: the import lines the resolved types need.
ImportsNeeded(modality_groups) ==
    LET all_return_types == UNION {modality_groups[i].return_types :
                                       i \in 1..Len(modality_groups)}
    IN {TYPE_IMPORTS[t] : t \in all_return_types \cap DOMAIN TYPE_IMPORTS}

\* Lines 211-213: the overloads of the modalities of modality_order, in that order.
RECURSIVE PriorityOverloads(_, _)
PriorityOverloads(order, modality_groups) ==
    IF Len(order) = 0 THEN <<>>
    ELSE (IF GroupHasKey(modality_groups, Head(order))
          THEN _generate_modality_overload(Head(order),
                                           GroupLookup(modality_groups, Head(order)))
          ELSE <<>>)
         \o PriorityOverloads(Tail(order), modality_groups)

\* A variant of OtherOverloads: the second loop does not skip the modalities of
\* modality_order.
RECURSIVE OtherOverloadsUnfiltered(_)
OtherOverloadsUnfiltered(modality_groups) ==
    IF Len(modality_groups) = 0 THEN <<>>
    ELSE _generate_modality_overload(Head(modality_groups).modality,
                                     Head(modality_groups).return_types)
         \o OtherOverloadsUnfiltered(Tail(modality_groups))

\* Lines 216-218: the overloads of the other modalities, in the order of
\* modality_groups.items().
RECURSIVE OtherOverloads(_)
OtherOverloads(modality_groups) ==
    IF Len(modality_groups) = 0 THEN <<>>
    ELSE (IF ~ InModalityOrder(Head(modality_groups).modality)
          THEN _generate_modality_overload(Head(modality_groups).modality,
                                           Head(modality_groups).return_types)
          ELSE <<>>)
         \o OtherOverloads(Tail(modality_groups))

\* The list `lines` when _generate_stub_content returns.
StubLines(info) ==
    LET modality_groups == _group_by_modality(info)
    IN HeaderLines
       \o SortedStrings(ImportsNeeded(modality_groups))
       \o ClassLines
       \o PriorityOverloads(modality_order, modality_groups)
       \o OtherOverloads(modality_groups)
       \o FallbackLines
       \o SignatureLines

\* The fixed blocks of lines, joined.
HeaderText == StrJoin("\n", HeaderLines)
ClassText == StrJoin("\n", ClassLines)
TrailerText == StrJoin("\n", FallbackLines \o SignatureLines)

\* Line 261: "\n".join(lines), the fixed blocks of `lines` taken already joined.
_generate_stub_content(info) ==
    LET modality_groups == _group_by_modality(info)
    IN StrJoin("\n", <<HeaderText>>
                         \o SortedStrings(ImportsNeeded(modality_groups))
                         \o <<ClassText>>
                         \o PriorityOverloads(modality_order, modality_groups)
                         \o OtherOverloads(modality_groups)
                         \o <<TrailerText>>)

(***************************************************************************)
(* Registry snapshots the generator is run on.                             *)
(***************************************************************************)
\* Bounds.
MaxSuffixes == 3    \* suffix registrations (base and custom) in one registry
MaxEntries == 3     \* entries of a suffix table handed to _generate_stub_content
MaxTypes == 3       \* return types of one modality handed to _generate_modality_overload

ModalityNames == {"Image", "Audio", "Depth"}

\* The base handler each modality registers; "Depth" registers none.
BaseIOOf(modality) ==
    CASE modality = "Image" -> HandlerClass("BaseImage")
      [] modality = "Audio" -> TypedHandlerClass("AudioIO", "numpy.ndarray")
      [] modality = "Depth" -> None

BaseSuffixStrings == {".PNG", "dat"}
CustomSuffixStrings == {"png", ".PNG"}
CustomHandlerChoices == {HandlerClass("JsonText"), None}
CollisionChoices == {{}, {".PNG", "dat"}}

CustomItems == {[suffix |-> k, handler |-> h] : k \in CustomSuffixStrings,
                                              h \in CustomHandlerChoices}

\* The Custom dicts: items in insertion order, keys distinct.
CustomDicts ==
    {<<>>} \cup {<<a>> : a \in CustomItems}
           \cup {ab \in {<<a, b>> : a \in CustomItems, b \in CustomItems} :
                     ab[1].suffix # ab[2].suffix}

RegistrationsIn(registry) == Cardinality(registry.base_suffixes) + Len(registry.Custom)

\* The records a modality may hold: its base handler, a set of base suffixes,
\* a Custom dict.
ModalityRecords ==
    [m \in ModalityNames |->
        [modality : {m}, BaseIO : {BaseIOOf(m)},
         base_suffixes : SUBSET BaseSuffixStrings, Custom : CustomDicts]]

\* registry is prefix followed by records of distinct modalities among names,
\* with at most n registrations in them.
RECURSIVE IsRegistryFrom(_, _, _, _)
IsRegistryFrom(registry, prefix, names, n) ==
    \/ registry = prefix
    \/ \E m \in names :
           \E r \in {x \in ModalityRecords[m] : RegistrationsIn(x) <= n} :
               IsRegistryFrom(registry, Append(prefix, r), names \ {m},
                              n - RegistrationsIn(r))

NoFile == ""        \* Mapping.pyi does not exist yet (a generated text is never empty)

(***************************************************************************)
(* Spec: generate_io_stubs, run any number of times on one registry        *)
(* snapshot.                                                               *)
(***************************************************************************)
Init ==
    /\ IsRegistryFrom(IORegistry, <<>>, ModalityNames, MaxSuffixes)
    /\ collision_suffix \in CollisionChoices
    /\ pc = "call"
    /\ suffix_info = <<>>
    /\ lines = <<>>
    /\ content = ""
    /\ output_file = NoFile
    /\ handler_class = None
    /\ resolved_type = ""
    /\ modality_arg = ""
    /\ return_types_arg = {}
    /\ overload_lines = <<>>

\* Lines 281-287: collect the table, generate the text, write the file.
generate_io_stubs ==
    /\ \E orders \in IterationOrders(IORegistry) :
           suffix_info' = _collect_suffix_info(IORegistry, collision_suffix, orders)
    /\ content' = _generate_stub_content(suffix_info')
    /\ output_file' = content'
    /\ pc' = "return"
    /\ UNCHANGED <<IORegistry, collision_suffix, lines, handler_class, resolved_type,
                   modality_arg, return_types_arg, overload_lines>>

Next == generate_io_stubs

Spec == Init /\ [][Next]_vars

(***************************************************************************)
(* SpecTypes: _get_handler_return_type on one handler class.               *)
(***************************************************************************)
ClassNames == {"BaseImage", "BaseText", "JsonText", "YamlText", "BaseVideo",
               "AudioIO", "DepthIO", "object"}

TypeStrings == {"PIL.Image.Image", "str", "dict[str, Any]", "torchvision.io.VideoReader",
                "Any", "numpy.ndarray", "PILImage", "bytes"}

HandlerClasses ==
    {HandlerClass(n) : n \in ClassNames}
        \cup {TypedHandlerClass(n, t) : n \in ClassNames, t \in TypeStrings}

InitTypes ==
    /\ handler_class \in HandlerClasses
    /\ pc = "call"
    /\ resolved_type = ""
    /\ IORegistry = <<>>
    /\ collision_suffix = {}
    /\ suffix_info = <<>>
    /\ lines = <<>>
    /\ content = ""
    /\ output_file = NoFile
    /\ modality_arg = ""
    /\ return_types_arg = {}
    /\ overload_lines = <<>>

ResolveType ==
    /\ pc = "call"
    /\ resolved_type' = _get_handler_return_type(handler_class)
    /\ pc' = "return"
    /\ UNCHANGED <<IORegistry, collision_suffix, suffix_info, lines, content, output_file,
                   handler_class, modality_arg, return_types_arg, overload_lines>>

NextTypes == ResolveType

SpecTypes == InitTypes /\ [][NextTypes]_vars

(***************************************************************************)
(* SpecUnion: _generate_modality_overload on one modality and its set of   *)
(* return types.                                                           *)
(***************************************************************************)
OverloadModalities == {"Image", "Audio"}

InitUnion ==
    /\ modality_arg \in OverloadModalities
    /\ return_types_arg \in {S \in SUBSET TypeStrings :
                                Cardinality(S) >= 1 /\ Cardinality(S) <= MaxTypes}
    /\ pc = "call"
    /\ overload_lines = <<>>
    /\ IORegistry = <<>>
    /\ collision_suffix = {}
    /\ suffix_info = <<>>
    /\ lines = <<>>
    /\ content = ""
    /\ output_file = NoFile
    /\ handler_class = None
    /\ resolved_type = ""

GenerateOverload ==
    /\ pc = "call"
    /\ overload_lines' = _generate_modality_overload(modality_arg, return_types_arg)
    /\ pc' = "return"
    /\ UNCHANGED <<IORegistry, collision_suffix, suffix_info, lines, content, output_file,
                   handler_class, resolved_type, modality_arg, return_types_arg>>

NextUnion == GenerateOverload

SpecUnion == InitUnion /\ [][NextUnion]_vars

(***************************************************************************)
(* SpecEmit: _generate_stub_content on one suffix table.                   *)
(***************************************************************************)
EmitModalities == {"Image", "Text", "Video", "Audio", "Depth"}

EmitHandlers == {HandlerClass("BaseImage"), HandlerClass("BaseText"),
                 HandlerClass("BaseVideo")}

\* The keys of the table, in insertion order.
EmitSuffixes == <<"png", "txt", "mp4", "dat", "bin", "raw">>

\* The tables of n entries: the i-th key is EmitSuffixes[i]; each entry is one
\* that _collect_suffix_info stores.
SuffixTables(n) ==
    {[i \in 1..n |-> SuffixEntry(EmitSuffixes[i], hm[i][1], hm[i][2], {})] :
        hm \in [1..n -> EmitHandlers \X EmitModalities]}

InitEmit ==
    /\ \E n \in 0..MaxEntries : suffix_info \in SuffixTables(n)
    /\ pc = "call"
    /\ lines = <<>>
    /\ content = ""
    /\ IORegistry = <<>>
    /\ collision_suffix = {}
    /\ output_file = NoFile
    /\ handler_class = None
    /\ resolved_type = ""
    /\ modality_arg = ""
    /\ return_types_arg = {}
    /\ overload_lines = <<>>

GenerateStubContent ==
    /\ pc = "call"
    /\ lines' = StubLines(suffix_info)
    /\ content' = _generate_stub_content(suffix_info)
    /\ pc' = "return"
    /\ UNCHANGED <<IORegistry, collision_suffix, suffix_info, output_file, handler_class,
                   resolved_type, modality_arg, return_types_arg, overload_lines>>

NextEmit == GenerateStubContent

SpecEmit == InitEmit /\ [][NextEmit]_vars

(***************************************************************************)
(* Properties of _get_handler_return_type (SpecTypes).                     *)
(***************************************************************************)
\* C6: the resolved type is the class's own return_type when it defines one,
\* else the DEFAULT_RETURN_TYPES entry of its class name when there is one,
\* else "Any".
C6_TypeResolutionPrecedence ==
    pc = "return" =>
        resolved_type =
            IF handler_class.has_return_type THEN handler_class.return_type
            ELSE IF handler_class.name \in {"BaseImage", "BaseText", "JsonText",
                                             "YamlText", "BaseVideo"}
                 THEN DEFAULT_RETURN_TYPES[handler_class.name]
                 ELSE "Any"

\* A class of the table that declares another type than the table's has been resolved.
C6_Witness ==
    /\ pc = "return"
    /\ handler_class = TypedHandlerClass("BaseText", "bytes")
    /\ resolved_type = "bytes"

(***************************************************************************)
(* Properties of _generate_modality_overload (SpecUnion).                  *)
(***************************************************************************)
ReturnLine(stub_type) == "    ) -> " \o stub_type \o ": ..."

\* The line of the overload that carries the return type.
ReturnLineOf(overload) == overload[9]

IsIncreasing(order) ==
    \A i \in 1..Len(order) : \A j \in 1..Len(order) :
        i < j => StrLess(order[i], order[j])

AliasOf(t) ==
    CASE t = "PIL.Image.Image" -> "PILImage"
      [] t = "torchvision.io.VideoReader" -> "VideoReader"
      [] OTHER -> t

\* C3: for two or more return types the overload returns Union[...]
\* of the substituted names, each once, in lexicographic order of the
\* substituted names.
C3_UnionSortedByStubName ==
    (pc = "return" /\ Cardinality(return_types_arg) >= 2) =>
        \E order \in Enumerations({AliasOf(t) : t \in return_types_arg}) :
            /\ IsIncreasing(order)
            /\ ReturnLineOf(overload_lines)
                   = ReturnLine("Union[" \o StrJoin(", ", order) \o "]")

\* C8: a modality with exactly one return type T returns T's substituted
\* name, or T itself when it has none, with no Union[...] around it.
C8_SingleTypeUnwrapped ==
    (pc = "return" /\ Cardinality(return_types_arg) = 1) =>
        \A t \in return_types_arg :
            /\ ReturnLineOf(overload_lines) = ReturnLine(AliasOf(t))
            /\ SubSeq(ReturnLineOf(overload_lines), 10, 15) # "Union["

\* A single aliased type has been rendered.
C8_Witness ==
    /\ pc = "return"
    /\ return_types_arg = {"PIL.Image.Image"}
    /\ ReturnLineOf(overload_lines) = "    ) -> PILImage: ..."

(***************************************************************************)
(* Properties of _generate_stub_content (SpecEmit).                        *)
(***************************************************************************)
LiteralPrefix == "        modality: Literal[\""

IsLiteralLine(l) ==
    Len(l) > Len(LiteralPrefix) /\ SubSeq(l, 1, Len(LiteralPrefix)) = LiteralPrefix

LiteralLine(modality) == LiteralPrefix \o modality \o "\"],"

\* The positions of the @overload decorators in the text.
OverloadStarts(text_lines) == {i \in 1..Len(text_lines) : text_lines[i] = "    @overload"}

\* The k-th smallest element of a set of positions.
NthPosition(positions, k) ==
    CHOOSE i \in positions : Cardinality({j \in positions : j < i}) = k - 1

\* The modality keys of the grouped table, and the return types of each.
TableModalities(info) == {info[k].modality : k \in 1..Len(info)}

TableTypes(info, modality) ==
    {info[k].return_type : k \in {j \in 1..Len(info) : info[j].modality = modality}}

\* Where a modality's overload stands: Image, Text, Video first, the others
\* after them by first appearance in the table.
EmitRank(info, modality) ==
    CASE modality = "Image" -> 1
      [] modality = "Text" -> 2
      [] modality = "Video" -> 3
      [] OTHER -> 3 + (CHOOSE k \in 1..Len(info) :
                          /\ info[k].modality = modality
                          /\ \A j \in 1..(k - 1) : info[j].modality # modality)

\* C5: the text holds one overload per modality of the table and no other,
\* each with modality: Literal["<name>"] and that modality's display type;
\* Image, Text, Video come first in that order, then the other modalities in
\* the order the grouping met them; one fallback overload with
\* modality: None = None returning Any follows them.
C5_OverloadSequence ==
    pc = "return" =>
        LET starts == OverloadStarts(lines)
        IN \E ms \in Enumerations(TableModalities(suffix_info)) :
              /\ \A a \in 1..Len(ms) : \A b \in 1..Len(ms) :
                     a < b => EmitRank(suffix_info, ms[a]) < EmitRank(suffix_info, ms[b])
              /\ Cardinality(starts) = Len(ms) + 1
              /\ Cardinality({i \in 1..Len(lines) : IsLiteralLine(lines[i])}) = Len(ms)
              /\ \A k \in 1..Len(ms) :
                     LET i == NthPosition(starts, k)
                     IN /\ lines[i + 4] = LiteralLine(ms[k])
                        /\ lines[i + 7] = ReturnLine(StubType(TableTypes(suffix_info, ms[k])))
              /\ LET i == NthPosition(starts, Len(ms) + 1)
                 IN /\ lines[i + 4] = "        modality: None = None,"
                    /\ lines[i + 7] = "    ) -> Any: ..."
              /\ content = StrJoin("\n", lines)

\* A table that meets Depth, then Video, then Image has been rendered: Image
\* and Video are emitted before Depth.
C5_Witness ==
    /\ pc = "return"
    /\ Len(suffix_info) = 3
    /\ suffix_info[1].modality = "Depth"
    /\ suffix_info[2].modality = "Video"
    /\ suffix_info[3].modality = "Image"
    /\ \E i \in 1..Len(lines) : \E j \in 1..Len(lines) : \E k \in 1..Len(lines) :
           /\ i < j /\ j < k
           /\ lines[i] = LiteralLine("Image")
           /\ lines[j] = LiteralLine("Video")
           /\ lines[k] = LiteralLine("Depth")

(***************************************************************************)
(* Properties of generate_io_stubs (Spec).                                 *)
(***************************************************************************)
\* The normalized base suffixes of a modality record.
BaseNormalized(registry) == {NormalizeSuffix(b) : b \in registry.base_suffixes}

\* The positions of the Custom items of a record whose key normalizes to s.
CustomFor(registry, s) ==
    {k \in 1..Len(registry.Custom) : NormalizeSuffix(registry.Custom[k].suffix) = s}

\* Those of them that carry a handler.
PresentCustomFor(registry, s) ==
    {k \in CustomFor(registry, s) : registry.Custom[k].handler # None}

\* Every normalized suffix of the registry.
RegistrySuffixes ==
    UNION {BaseNormalized(IORegistry[i])
               \cup {NormalizeSuffix(IORegistry[i].Custom[k].suffix) :
                         k \in 1..Len(IORegistry[i].Custom)} :
           i \in 1..Len(IORegistry)}

\* C1: once generate_io_stubs has written the file, every further run on the
\* same registry snapshot writes the same text.
C1_SameTextEveryRun == [][output_file # NoFile => output_file' = output_file]_vars

\* C2 as stated: a suffix that is a base suffix of M and the key of a custom
\* override of M that carries a handler is resolved, in the table, to a custom
\* override handler of M.
C2_OverrideAlwaysWins ==
    pc = "return" =>
        \A i \in 1..Len(IORegistry) :
            \A s \in BaseNormalized(IORegistry[i]) :
                PresentCustomFor(IORegistry[i], s) # {} =>
                    /\ DictHasKey(suffix_info, s)
                    /\ DictLookup(suffix_info, s).handler
                           \in {IORegistry[i].Custom[k].handler :
                                    k \in PresentCustomFor(IORegistry[i], s)}

\* C2 amended: such a suffix has an entry in the table; when the entry is M's
\* it carries a custom override handler of M, never M's base handler;
\* otherwise the entry belongs to a modality that comes after M in the
\* registry.
C2_OverrideWinsWithinModality ==
    pc = "return" =>
        \A i \in 1..Len(IORegistry) :
            \A s \in BaseNormalized(IORegistry[i]) :
                PresentCustomFor(IORegistry[i], s) # {} =>
                    /\ DictHasKey(suffix_info, s)
                    /\ LET e == DictLookup(suffix_info, s)
                       IN IF e.modality = IORegistry[i].modality
                          THEN /\ e.handler \in {IORegistry[i].Custom[k].handler :
                                                    k \in PresentCustomFor(IORegistry[i], s)}
                               /\ e.handler # IORegistry[i].BaseIO
                          ELSE \E j \in (i + 1)..Len(IORegistry) :
                                   IORegistry[j].modality = e.modality

\* In a registry of several modalities, ".PNG" is a base suffix of a modality
\* and the key of one of its overrides, and the table resolves "png" to the
\* override.
C2_Witness ==
    /\ pc = "return"
    /\ Len(IORegistry) >= 2
    /\ \E i \in 1..Len(IORegistry) :
           /\ IORegistry[i].BaseIO # None
           /\ ".PNG" \in IORegistry[i].base_suffixes
           /\ \E k \in 1..Len(IORegistry[i].Custom) :
                  IORegistry[i].Custom[k] = [suffix |-> ".PNG",
                                             handler |-> HandlerClass("JsonText")]
           /\ DictHasKey(suffix_info, "png")
           /\ DictLookup(suffix_info, "png").modality = IORegistry[i].modality
           /\ DictLookup(suffix_info, "png").handler = HandlerClass("JsonText")

\* Whether a modality record registers the normalized suffix s: as a base
\* suffix with a base handler, or as a custom override with a handler.
Registers(registry, s) ==
    \/ registry.BaseIO # None /\ s \in BaseNormalized(registry)
    \/ PresentCustomFor(registry, s) # {}

\* The handlers a modality record registers for s.
HandlersFor(registry, s) ==
    (IF registry.BaseIO # None /\ s \in BaseNormalized(registry)
     THEN {registry.BaseIO} ELSE {})
        \cup {registry.Custom[k].handler : k \in PresentCustomFor(registry, s)}

\* C4: a suffix registered under two or more modalities ends with the
\* handler, modality and return type of the one that comes last in the
\* registry.
C4_LastModalityWins ==
    pc = "return" =>
        \A s \in RegistrySuffixes :
            LET registering == {i \in 1..Len(IORegistry) : Registers(IORegistry[i], s)}
                last == CHOOSE i \in registering : \A j \in registering : j <= i
            IN Cardinality(registering) >= 2 =>
                   /\ DictHasKey(suffix_info, s)
                   /\ LET e == DictLookup(suffix_info, s)
                      IN /\ e.modality = IORegistry[last].modality
                         /\ e.handler \in HandlersFor(IORegistry[last], s)
                         /\ e.return_type = _get_handler_return_type(e.handler)

\* The registry with the custom overrides that carry no handler removed.
WithoutAbsentOverrides(registries) ==
    [i \in 1..Len(registries) |->
        LET HasHandler(item) == item.handler # None
        IN [registries[i] EXCEPT !.Custom = SelectSeq(@, HasHandler)]]

\* The items of a table, as dict equality compares them.
DictItems(d) == {d[k] : k \in 1..Len(d)}

\* C7: no entry is stored without a handler, and the table is the one built
\* from the registry without its handler-less overrides.
C7_AbsentOverrideIgnored ==
    pc = "return" =>
        /\ \A k \in 1..Len(suffix_info) : suffix_info[k].handler # None
        /\ \A orders \in IterationOrders(IORegistry) :
               _collect_suffix_info(IORegistry, collision_suffix, orders) = suffix_info =>
                   DictItems(suffix_info)
                       = DictItems(_collect_suffix_info(WithoutAbsentOverrides(IORegistry),
                                                        collision_suffix, orders))

\* The registry with every key of every Custom dict normalized.
WithNormalizedKeys(registries) ==
    [i \in 1..Len(registries) |->
        [registries[i] EXCEPT !.Custom =
            [k \in 1..Len(@) |-> [@[k] EXCEPT !.suffix = NormalizeSuffix(@)]]]]

\* No two keys of one Custom dict normalize to the same suffix.
KeysStayDistinct(registries) ==
    \A i \in 1..Len(registries) :
        \A k, l \in 1..Len(registries[i].Custom) :
            k # l => NormalizeSuffix(registries[i].Custom[k].suffix)
                         # NormalizeSuffix(registries[i].Custom[l].suffix)

\* C10: the keys of the table are normalized; an entry is flagged exactly
\* when some string of the collision set normalizes to its key; and the table
\* does not depend on how the keys of the custom overrides are spelled: it is
\* the one built from the registry with those keys normalized.
C10_NormalizedComparisons ==
    pc = "return" =>
        /\ \A k \in 1..Len(suffix_info) :
               /\ suffix_info[k].suffix = NormalizeSuffix(suffix_info[k].suffix)
               /\ suffix_info[k].is_collision
                      = (\E c \in collision_suffix :
                             NormalizeSuffix(c) = suffix_info[k].suffix)
        /\ KeysStayDistinct(IORegistry) =>
               \A orders \in IterationOrders(IORegistry) :
                   _collect_suffix_info(IORegistry, collision_suffix, orders) = suffix_info =>
                       DictItems(suffix_info)
                           = DictItems(_collect_suffix_info(WithNormalizedKeys(IORegistry),
                                                            collision_suffix, orders))

\* The collision sets a registry is compared under.
CollisionAlternatives == {{}, {"png"}, {"png", "dat"}}

\* The handler, modality and return type of each entry, in table order.
Resolution(info) ==
    [k \in 1..Len(info) |-> <<info[k].suffix, info[k].handler, info[k].modality,
                              info[k].return_type>>]

\* C9: with another collision set, and the sets visited in the same order,
\* the table has the same keys with the same handler, modality and return
\* type, the groups are the same and the text is the same; a flagged entry
\* carries a handler and its resolved type.
C9_CollisionFlagIndependence ==
    pc = "return" =>
        /\ \A orders \in IterationOrders(IORegistry) :
               _collect_suffix_info(IORegistry, collision_suffix, orders) = suffix_info =>
                   \A other \in CollisionAlternatives :
                       LET table == _collect_suffix_info(IORegistry, other, orders)
                       IN /\ Resolution(table) = Resolution(suffix_info)
                          /\ _group_by_modality(table) = _group_by_modality(suffix_info)
                          /\ _generate_stub_content(table) = content
        /\ \A k \in 1..Len(suffix_info) :
               suffix_info[k].is_collision =>
                   /\ suffix_info[k].handler # None
                   /\ suffix_info[k].return_type
                          \in {"PIL.Image.Image", "numpy.ndarray", "dict[str, Any]"}

\* A table with a flagged entry has been built and rendered.
C9_Witness ==
    /\ pc = "return"
    /\ collision_suffix = {".PNG", "dat"}
    /\ \E k \in 1..Len(suffix_info) :
           /\ suffix_info[k].suffix = "dat"
           /\ suffix_info[k].is_collision
           /\ suffix_info[k].return_type = "numpy.ndarray"
    /\ output_file = content

====
